---- MODULE Spec2Model ----
(***************************************************************************)
(* A model of tools/rsr_checker.py, the RSR compliance checker: the report *)
(* aggregator (ComplianceReport), the predicate library and the four       *)
(* checklists (RSRChecker), the JSON export and the command line (main).   *)
(*                                                                         *)
(* A percentage is the Python float passed / total * 100.  It is modelled  *)
(* as the exact fraction [num, den] in lowest terms; for every total up to *)
(* 2000 the float comparisons the program makes (< 100, < 66, == 100,      *)
(* >= 50) agree with the same comparisons on the exact fraction.           *)
(***************************************************************************)
EXTENDS Integers, Sequences, FiniteSets, TLC

VARIABLES
    fs,         \* the repository tree: path -> entry
    args,       \* the parsed command line of main()
    pc,         \* position of the caller
    report,     \* RSRChecker.report / a ComplianceReport
    result,     \* the value returned by the last method called
    written,    \* the output file of export_json: NoFile, a document or Truncated
    runs,       \* the number of run_checks() calls that returned
    calls,      \* the number of method calls made on the checker
    exit_code   \* the process exit status, or NoExit while running

vars == <<fs, args, pc, report, result, written, runs, calls, exit_code>>

----------------------------------------------------------------------------
(* Bounds of the model.                                                    *)

\* longest check list of a directly constructed report, besides the
\* reference sizes 18 / 6 / 3 / 4
MaxChecks == 2

\* the number of run_checks() calls on one checker that are counted
MaxRuns == 2

\* the number of method calls made on one checker used as a library
MaxCalls == 2

----------------------------------------------------------------------------
(* Small helpers.                                                          *)

RECURSIVE Gcd(_, _)
Gcd(a, b) == IF b = 0 THEN a ELSE Gcd(b, a % b)

Min(a, b) == IF a < b THEN a ELSE b

\* a fraction num / den in lowest terms, den > 0
Frac(n, d) == LET g == Gcd(n, d) IN [num |-> n \div g, den |-> d \div g]

\* p < n, p >= n and p = n for a fraction p and an integer n
PctLT(p, n) == p.num < n * p.den
PctGE(p, n) == ~PctLT(p, n)
PctEQ(p, n) == p.num = n * p.den

\* str.lower() and str.capitalize() on the level names the program uses
LevelNames == <<"Bronze", "Silver", "Gold", "Platinum">>
LevelKeys == <<"bronze", "silver", "gold", "platinum">>
Levels == {LevelNames[i] : i \in 1..4}

Lower(s) ==
    IF \E i \in 1..4 : s \in {LevelNames[i], LevelKeys[i]}
    THEN LevelKeys[CHOOSE i \in 1..4 : s \in {LevelNames[i], LevelKeys[i]}]
    ELSE s

Capitalize(s) ==
    IF \E i \in 1..4 : s \in {LevelNames[i], LevelKeys[i]}
    THEN LevelNames[CHOOSE i \in 1..4 : s \in {LevelNames[i], LevelKeys[i]}]
    ELSE s

----------------------------------------------------------------------------
(* ComplianceCheck and ComplianceReport.                                   *)

\* ComplianceCheck(name, description, level, category, status, details):
\* required and weight keep their defaults
ComplianceCheck(name, description, level, category, status, details) ==
    [name |-> name, description |-> description, level |-> level,
     category |-> category, required |-> TRUE, status |-> status,
     details |-> details, weight |-> 1]

\* ComplianceReport(): four empty lists
ComplianceReport ==
    [bronze_checks |-> <<>>, silver_checks |-> <<>>,
     gold_checks |-> <<>>, platinum_checks |-> <<>>]

\* sum(1 for c in checks if c.status)
RECURSIVE CountPassed(_)
CountPassed(checks) ==
    IF checks = <<>> THEN 0
    ELSE (IF Head(checks).status THEN 1 ELSE 0) + CountPassed(Tail(checks))

\* a mutant: only the checks marked required are scored
get_level_score_required(r, level) ==
    LET all == r[Lower(level) \o "_checks"]
        checks == SelectSeq(all, LAMBDA c : c.required)
        passed == CountPassed(checks)
        total == Len(checks)
    IN  <<passed, total, IF total > 0 THEN Frac(passed * 100, total) ELSE Frac(0, 1)>>

\* a mutant: an empty level counts as complete
get_level_score_vacuous(r, level) ==
    LET checks == r[Lower(level) \o "_checks"]
        passed == CountPassed(checks)
        total == Len(checks)
    IN  <<passed, total, IF total > 0 THEN Frac(passed * 100, total) ELSE Frac(100, 1)>>

\* ComplianceReport.get_level_score: (passed, total, percentage)
get_level_score(r, level) ==
    LET checks == r[Lower(level) \o "_checks"]
        passed == CountPassed(checks)
        total == Len(checks)
    IN  <<passed, total, IF total > 0 THEN Frac(passed * 100, total) ELSE Frac(0, 1)>>

\* a mutant: the highest tier whose own threshold is met, lower gates ignored
get_overall_level_best(r) ==
    LET bronze_pct == get_level_score(r, "Bronze")[3]
        silver_pct == get_level_score(r, "Silver")[3]
        gold_pct == get_level_score(r, "Gold")[3]
        platinum_pct == get_level_score(r, "Platinum")[3]
    IN  IF PctGE(platinum_pct, 66) THEN "Platinum"
        ELSE IF PctGE(gold_pct, 66) THEN "Gold"
        ELSE IF PctGE(silver_pct, 100) THEN "Silver"
        ELSE IF PctGE(bronze_pct, 100) THEN "Bronze"
        ELSE "Non-compliant"

\* a mutant: the Gold gate asks for 67 percent
get_overall_level_67(r) ==
    LET bronze_pct == get_level_score(r, "Bronze")[3]
        silver_pct == get_level_score(r, "Silver")[3]
        gold_pct == get_level_score(r, "Gold")[3]
        platinum_pct == get_level_score(r, "Platinum")[3]
    IN  IF PctLT(bronze_pct, 100) THEN "Non-compliant"
        ELSE IF PctLT(silver_pct, 100) THEN "Bronze"
        ELSE IF PctLT(gold_pct, 67) THEN "Silver"
        ELSE IF PctLT(platinum_pct, 66) THEN "Gold"
        ELSE "Platinum"

\* a mutant: the Silver gate uses the 66 percent threshold too
get_overall_level_silver66(r) ==
    LET bronze_pct == get_level_score(r, "Bronze")[3]
        silver_pct == get_level_score(r, "Silver")[3]
        gold_pct == get_level_score(r, "Gold")[3]
        platinum_pct == get_level_score(r, "Platinum")[3]
    IN  IF PctLT(bronze_pct, 100) THEN "Non-compliant"
        ELSE IF PctLT(silver_pct, 66) THEN "Bronze"
        ELSE IF PctLT(gold_pct, 66) THEN "Silver"
        ELSE IF PctLT(platinum_pct, 66) THEN "Gold"
        ELSE "Platinum"

\* a mutant: the Platinum gate asks for 50 percent
get_overall_level_half(r) ==
    LET bronze_pct == get_level_score(r, "Bronze")[3]
        silver_pct == get_level_score(r, "Silver")[3]
        gold_pct == get_level_score(r, "Gold")[3]
        platinum_pct == get_level_score(r, "Platinum")[3]
    IN  IF PctLT(bronze_pct, 100) THEN "Non-compliant"
        ELSE IF PctLT(silver_pct, 100) THEN "Bronze"
        ELSE IF PctLT(gold_pct, 66) THEN "Silver"
        ELSE IF PctLT(platinum_pct, 50) THEN "Gold"
        ELSE "Platinum"

\* a mutant: the Gold gate is a band, closed to a complete Gold list
get_overall_level_band(r) ==
    LET bronze_pct == get_level_score(r, "Bronze")[3]
        silver_pct == get_level_score(r, "Silver")[3]
        gold_pct == get_level_score(r, "Gold")[3]
        platinum_pct == get_level_score(r, "Platinum")[3]
    IN  IF PctLT(bronze_pct, 100) THEN "Non-compliant"
        ELSE IF PctLT(silver_pct, 100) THEN "Bronze"
        ELSE IF PctLT(gold_pct, 66) \/ PctEQ(gold_pct, 100) THEN "Silver"
        ELSE IF PctLT(platinum_pct, 66) THEN "Gold"
        ELSE "Platinum"

\* a mutant: the Bronze gate compares with <=
get_overall_level_le(r) ==
    LET bronze_pct == get_level_score(r, "Bronze")[3]
        silver_pct == get_level_score(r, "Silver")[3]
        gold_pct == get_level_score(r, "Gold")[3]
        platinum_pct == get_level_score(r, "Platinum")[3]
    IN  IF bronze_pct.num <= 100 * bronze_pct.den THEN "Non-compliant"
        ELSE IF PctLT(silver_pct, 100) THEN "Bronze"
        ELSE IF PctLT(gold_pct, 66) THEN "Silver"
        ELSE IF PctLT(platinum_pct, 66) THEN "Gold"
        ELSE "Platinum"

\* ComplianceReport.get_overall_level
get_overall_level(r) ==
    LET bronze_pct == get_level_score(r, "Bronze")[3]
        silver_pct == get_level_score(r, "Silver")[3]
        gold_pct == get_level_score(r, "Gold")[3]
        platinum_pct == get_level_score(r, "Platinum")[3]
    IN  IF PctLT(bronze_pct, 100) THEN "Non-compliant"
        ELSE IF PctLT(silver_pct, 100) THEN "Bronze"
        ELSE IF PctLT(gold_pct, 66) THEN "Silver"
        ELSE IF PctLT(platinum_pct, 66) THEN "Gold"
        ELSE "Platinum"

----------------------------------------------------------------------------
(* The repository tree.  An entry is absent, a directory or a regular file. *)
(* A file's text is kept as the set of features found in it: the regular    *)
(* expressions of the checklists that match it (re.search with IGNORECASE   *)
(* and MULTILINE) and the marker substrings that occur in it.  Modes:       *)
(*   file  "ok"           readable, valid UTF-8                             *)
(*         "undecodable"  readable, not valid UTF-8                         *)
(*         "denied"       open() fails                                      *)
(*   dir   "ok"           listable and searchable                           *)
(*         "listonly"     listable, not searchable: stat() of a child       *)
(*                        fails with EACCES                                 *)
(*         "denied"       neither listable nor searchable                   *)
(* The process is not the superuser.  Path.exists() and Path.is_file() are  *)
(* those of Python 3.11: ENOENT and ENOTDIR give False, EACCES propagates   *)
(* as PermissionError.                                                      *)

Absent == [kind |-> "absent", mode |-> "ok", text |-> {}]
Dir(mode) == [kind |-> "dir", mode |-> mode, text |-> {}]
File(mode, text) == [kind |-> "file", mode |-> mode, text |-> text]

\* the patterns and markers of the checklists
ReadmePatterns ==
    <<"##?\\s+Installation", "##?\\s+Usage", "##?\\s+Features", "##?\\s+License">>
LicensePatterns == <<"SPDX-License-Identifier:", "(MIT|Apache|GPL|AGPL|BSD)">>
SecurityPatterns == <<"##?\\s+Reporting", "##?\\s+Supported Versions", "(security@|contact)">>
SecurityTxtPatterns == <<"Contact:", "Expires:">>
PalimpsestPatterns == <<"Palimpsest", "(MIT OR|Apache-2\\.0 OR|GPL-\\d\\.\\d OR)">>
FlakePatterns == <<"inputs", "outputs", "packages">>
PropertyLibs == <<"hypothesis", "quickcheck", "proptest">>
ScannerTools == <<"bandit", "semgrep", "snyk", "trivy">>
CrdtTerms == <<"crdt", "conflict-free", "operational transform", "automerge">>

Range(seq) == {seq[i] : i \in 1..Len(seq)}

\* the paths of the model: those the checklists name, the two directories
\* whose children are examined, and one file for each glob of the language
\* table.  dir is the directory a path lies in ("" for the repository root).
PathTable ==
    <<[path |-> "README.md", dir |-> "", name |-> "README.md"],
      [path |-> "LICENSE", dir |-> "", name |-> "LICENSE"],
      [path |-> "SECURITY.md", dir |-> "", name |-> "SECURITY.md"],
      [path |-> "CONTRIBUTING.md", dir |-> "", name |-> "CONTRIBUTING.md"],
      [path |-> "CODE_OF_CONDUCT.md", dir |-> "", name |-> "CODE_OF_CONDUCT.md"],
      [path |-> "MAINTAINERS.md", dir |-> "", name |-> "MAINTAINERS.md"],
      [path |-> "CHANGELOG.md", dir |-> "", name |-> "CHANGELOG.md"],
      [path |-> ".well-known", dir |-> "", name |-> ".well-known"],
      [path |-> ".well-known/security.txt", dir |-> ".well-known", name |-> "security.txt"],
      [path |-> ".well-known/ai.txt", dir |-> ".well-known", name |-> "ai.txt"],
      [path |-> ".well-known/humans.txt", dir |-> ".well-known", name |-> "humans.txt"],
      [path |-> "justfile", dir |-> "", name |-> "justfile"],
      [path |-> "Makefile", dir |-> "", name |-> "Makefile"],
      [path |-> "flake.nix", dir |-> "", name |-> "flake.nix"],
      [path |-> ".gitlab-ci.yml", dir |-> "", name |-> ".gitlab-ci.yml"],
      [path |-> ".github/workflows", dir |-> ".github", name |-> "workflows"],
      [path |-> ".github/workflows/ci.yml", dir |-> ".github/workflows", name |-> "ci.yml"],
      [path |-> ".github/workflows/scan.yml", dir |-> ".github/workflows", name |-> "scan.yml"],
      [path |-> ".circleci/config.yml", dir |-> ".circleci", name |-> "config.yml"],
      [path |-> "governance/TPCF.md", dir |-> "governance", name |-> "TPCF.md"],
      [path |-> "governance/PROJECT_GOVERNANCE.md", dir |-> "governance", name |-> "PROJECT_GOVERNANCE.md"],
      [path |-> "GOVERNANCE.md", dir |-> "", name |-> "GOVERNANCE.md"],
      [path |-> ".gitignore", dir |-> "", name |-> ".gitignore"],
      [path |-> "tests", dir |-> "", name |-> "tests"],
      [path |-> "tests/test_props.py", dir |-> "tests", name |-> "test_props.py"],
      [path |-> "tests/data.bin", dir |-> "tests", name |-> "data.bin"],
      [path |-> "test", dir |-> "", name |-> "test"],
      [path |-> "spec", dir |-> "", name |-> "spec"],
      [path |-> "DOCUMENTATION_INDEX.md", dir |-> "", name |-> "DOCUMENTATION_INDEX.md"],
      [path |-> "docs/README.md", dir |-> "docs", name |-> "README.md"],
      [path |-> "package.json", dir |-> "", name |-> "package.json"],
      [path |-> "Cargo.toml", dir |-> "", name |-> "Cargo.toml"],
      [path |-> "pyproject.toml", dir |-> "", name |-> "pyproject.toml"],
      [path |-> "setup.py", dir |-> "", name |-> "setup.py"],
      [path |-> "setup.cfg", dir |-> "", name |-> "setup.cfg"],
      [path |-> "tools/rsr_checker.py", dir |-> "tools", name |-> "rsr_checker.py"],
      [path |-> "scripts/rsr_checker.py", dir |-> "scripts", name |-> "rsr_checker.py"],
      [path |-> "RSR_COMPLIANCE.md", dir |-> "", name |-> "RSR_COMPLIANCE.md"],
      [path |-> "INSTALLATION_GUIDE.md", dir |-> "", name |-> "INSTALLATION_GUIDE.md"],
      [path |-> "USAGE_GUIDE.md", dir |-> "", name |-> "USAGE_GUIDE.md"],
      [path |-> "FEATURES.md", dir |-> "", name |-> "FEATURES.md"],
      [path |-> "proofs", dir |-> "", name |-> "proofs"],
      [path |-> "formal", dir |-> "", name |-> "formal"],
      [path |-> "coq", dir |-> "", name |-> "coq"],
      [path |-> "isabelle", dir |-> "", name |-> "isabelle"],
      [path |-> "tla+", dir |-> "", name |-> "tla+"],
      [path |-> "src/lib.rs", dir |-> "src", name |-> "lib.rs"],
      [path |-> "index.js", dir |-> "", name |-> "index.js"],
      [path |-> "tsconfig.json", dir |-> "", name |-> "tsconfig.json"],
      [path |-> "index.ts", dir |-> "", name |-> "index.ts"],
      [path |-> "go.mod", dir |-> "", name |-> "go.mod"],
      [path |-> "main.go", dir |-> "", name |-> "main.go"],
      [path |-> "main.adb", dir |-> "", name |-> "main.adb"],
      [path |-> "main.ads", dir |-> "", name |-> "main.ads"],
      [path |-> "mix.exs", dir |-> "", name |-> "mix.exs"],
      [path |-> "lib.ex", dir |-> "", name |-> "lib.ex"],
      [path |-> "Main.hs", dir |-> "", name |-> "Main.hs"],
      [path |-> "stack.yaml", dir |-> "", name |-> "stack.yaml"],
      [path |-> "requirements.txt", dir |-> "", name |-> "requirements.txt"],
      [path |-> "Cargo.lock", dir |-> "", name |-> "Cargo.lock"],
      [path |-> "sbom.json", dir |-> "", name |-> "sbom.json"],
      [path |-> "bom.xml", dir |-> "", name |-> "bom.xml"],
      [path |-> "crdt", dir |-> "", name |-> "crdt"],
      [path |-> "offline", dir |-> "", name |-> "offline"],
      [path |-> "sync", dir |-> "", name |-> "sync"],
      [path |-> "papers", dir |-> "", name |-> "papers"],
      [path |-> "docs/papers", dir |-> "docs", name |-> "papers"],
      [path |-> "PAPER.md", dir |-> "", name |-> "PAPER.md"],
      [path |-> "docs/conference-materials.md", dir |-> "docs", name |-> "conference-materials.md"],
      [path |-> "talks", dir |-> "", name |-> "talks"],
      [path |-> "presentations", dir |-> "", name |-> "presentations"],
      [path |-> "isos", dir |-> "", name |-> "isos"],
      [path |-> "docs/isos.md", dir |-> "docs", name |-> "isos.md"],
      [path |-> ".isos.toml", dir |-> "", name |-> ".isos.toml"]>>

Paths == {PathTable[i].path : i \in 1..Len(PathTable)}
Row(p) == PathTable[CHOOSE i \in 1..Len(PathTable) : PathTable[i].path = p]

\* the directory of the model a path lies in: its state decides whether the
\* path can be reached; "" is the repository root or a directory that is
\* always there
Parent(p) ==
    CASE p \in {".well-known/security.txt", ".well-known/ai.txt",
                ".well-known/humans.txt"} -> ".well-known"
      [] p \in {".github/workflows/ci.yml", ".github/workflows/scan.yml"} -> ".github/workflows"
      [] p \in {"tests/test_props.py", "tests/data.bin"} -> "tests"
      [] OTHER -> ""

\* self.repo_path / path: a trailing slash is dropped
Norm(p) ==
    CASE p = "proofs/" -> "proofs"
      [] p = "formal/" -> "formal"
      [] p = "coq/" -> "coq"
      [] p = "isabelle/" -> "isabelle"
      [] p = "tla+/" -> "tla+"
      [] p = "crdt/" -> "crdt"
      [] p = "offline/" -> "offline"
      [] p = "sync/" -> "sync"
      [] p = "papers/" -> "papers"
      [] p = "docs/papers/" -> "docs/papers"
      [] p = "talks/" -> "talks"
      [] p = "presentations/" -> "presentations"
      [] p = "isos/" -> "isos"
      [] OTHER -> p

\* os.stat(path): "found", "missing" (ENOENT, ENOTDIR) or "denied" (EACCES)
Stat(tree, p) ==
    IF Parent(p) # "" /\ tree[Parent(p)].kind # "dir" THEN "missing"
    ELSE IF Parent(p) # "" /\ tree[Parent(p)].mode # "ok" THEN "denied"
    ELSE IF tree[p].kind = "absent" THEN "missing"
    ELSE "found"

\* os.scandir: the entries a directory walk sees
Listed(tree, p) ==
    /\ tree[p].kind # "absent"
    /\ Parent(p) # "" => (tree[Parent(p)].kind = "dir" /\ tree[Parent(p)].mode # "denied")

\* Path.read_text(encoding='utf-8'): the text, or the exception open() or the
\* decoder raises, named by its message
ReadStrict(tree, p) ==
    IF Stat(tree, p) = "missing"
    THEN [raised |-> TRUE, text |-> {},
          error |-> IF Parent(p) # "" /\ tree[Parent(p)].kind = "file"
                    THEN "Not a directory" ELSE "No such file or directory"]
    ELSE IF Stat(tree, p) = "denied"
    THEN [raised |-> TRUE, text |-> {}, error |-> "Permission denied"]
    ELSE IF tree[p].kind = "dir"
    THEN [raised |-> TRUE, text |-> {},
          error |-> IF tree[p].mode = "denied" THEN "Permission denied" ELSE "Is a directory"]
    ELSE IF tree[p].mode = "denied" THEN [raised |-> TRUE, text |-> {}, error |-> "Permission denied"]
    ELSE IF tree[p].mode = "undecodable"
         THEN [raised |-> TRUE, text |-> {}, error |-> "'utf-8' codec can't decode"]
    ELSE [raised |-> FALSE, text |-> tree[p].text, error |-> ""]

\* Path.read_text(encoding='utf-8', errors='ignore'): undecodable bytes are dropped
ReadLenient(tree, p) ==
    IF Stat(tree, p) # "found" THEN [raised |-> TRUE, text |-> {}]
    ELSE IF tree[p].kind = "dir" \/ tree[p].mode = "denied" THEN [raised |-> TRUE, text |-> {}]
    ELSE [raised |-> FALSE, text |-> tree[p].text]

\* the suffix of a path's last component, for the paths of the model
Suffix(p) ==
    CASE p \in {"setup.py", "tools/rsr_checker.py", "scripts/rsr_checker.py",
                "tests/test_props.py"} -> ".py"
      [] p \in {".github/workflows/ci.yml", ".github/workflows/scan.yml",
                ".gitlab-ci.yml", ".circleci/config.yml"} -> ".yml"
      [] p = "src/lib.rs" -> ".rs"
      [] p = "index.js" -> ".js"
      [] p = "index.ts" -> ".ts"
      [] p = "main.go" -> ".go"
      [] p = "main.adb" -> ".adb"
      [] p = "main.ads" -> ".ads"
      [] p = "lib.ex" -> ".ex"
      [] p = "Main.hs" -> ".hs"
      [] OTHER -> ""

\* the globs of the program: "*<suffix>" matches by suffix, "src/*.rs" asks for
\* the directory src as well, any other pattern is a file name
GlobSuffix(pattern) ==
    CASE pattern = "*.py" -> ".py"
      [] pattern = "*.yml" -> ".yml"
      [] pattern \in {"*.rs", "src/*.rs"} -> ".rs"
      [] pattern = "*.js" -> ".js"
      [] pattern = "*.ts" -> ".ts"
      [] pattern = "*.go" -> ".go"
      [] pattern = "*.adb" -> ".adb"
      [] pattern = "*.ads" -> ".ads"
      [] pattern = "*.ex" -> ".ex"
      [] pattern = "*.hs" -> ".hs"
      [] OTHER -> ""

\* the globs and the roots the program walks
GlobPatterns ==
    {"*", "*.yml", "*.py", "setup.py", "pyproject.toml", "Cargo.toml", "src/*.rs",
     "package.json", "*.js", "tsconfig.json", "*.ts", "go.mod", "*.go", "*.adb", "*.ads",
     "mix.exs", "*.ex", "*.hs", "stack.yaml"}
GlobRoots == {"", "tests", ".github/workflows", ".gitlab-ci.yml"}

\* fnmatch of a pattern against the paths of the model under root ("" is the
\* repository root), in table order
GlobCandidates ==
    [root \in GlobRoots |-> [pattern \in GlobPatterns |->
        LET hit(r) ==
                /\ root = "" \/ Parent(r.path) = root
                /\ IF pattern = "*" THEN TRUE
                   ELSE IF GlobSuffix(pattern) # ""
                   THEN /\ Suffix(r.path) = GlobSuffix(pattern)
                        /\ pattern = "src/*.rs" => r.path = "src/lib.rs"
                   ELSE r.name = pattern
            rows == SelectSeq(PathTable, hit)
        IN  [i \in 1..Len(rows) |-> rows[i].path]]]

\* the entries Path.rglob(pattern) under root yields, listed in table order.
\* A wildcard is matched against the names scandir lists; a plain name is
\* looked up with exists(), PermissionError swallowed.
matches(tree, root, pattern) ==
    LET seen(p) == IF pattern = "*" \/ GlobSuffix(pattern) # "" THEN Listed(tree, p)
                   ELSE Stat(tree, p) = "found"
    IN  IF root # "" /\ (tree[root].kind # "dir" \/ tree[root].mode = "denied") THEN <<>>
        ELSE SelectSeq(GlobCandidates[root][pattern], seen)

DirOf == [p \in Paths |-> Row(p).dir]

\* the sequences that hold every element of a set once
RECURSIVE Perms(_)
Perms(set) ==
    IF set = {} THEN {<<>>}
    ELSE UNION {{<<x>> \o rest : rest \in Perms(set \ {x})} : x \in set}

\* a walk from root, given the directory of each entry it yields in turn:
\* os.scandir lists a directory in an order the file system decides; the
\* walk yields the matches lying in root itself first, then those of one
\* directory below after the other
InWalkOrder(root, dirs) ==
    \A i, j \in 1..Len(dirs) :
        i < j =>
            /\ dirs[j] = root => dirs[i] = root
            /\ dirs[i] = dirs[j] => \A k \in i..j : dirs[k] = dirs[i]

\* the orders in which a walk from root may yield the entries
WalkOrders(root, entries) ==
    {s \in Perms(entries) : InWalkOrder(root, [i \in 1..Len(s) |-> DirOf[s[i]]])}

\* Path.rglob(pattern) under root, for the walks the program makes: the
\* sequences the iteration may give, one for each order of listing
rglob(tree, root, pattern) == WalkOrders(root, Range(matches(tree, root, pattern)))

----------------------------------------------------------------------------
(* The trees the model is run on.                                          *)

\* the ways to cut a scanner marker in two: a text that ends with head,
\* followed by a text that begins with tail, holds the marker
Cuts ==
    {[marker |-> "bandit", head |-> "b", tail |-> "andit"],
     [marker |-> "bandit", head |-> "ba", tail |-> "ndit"],
     [marker |-> "bandit", head |-> "ban", tail |-> "dit"],
     [marker |-> "bandit", head |-> "band", tail |-> "it"],
     [marker |-> "bandit", head |-> "bandi", tail |-> "t"],
     [marker |-> "semgrep", head |-> "s", tail |-> "emgrep"],
     [marker |-> "semgrep", head |-> "se", tail |-> "mgrep"],
     [marker |-> "semgrep", head |-> "sem", tail |-> "grep"],
     [marker |-> "semgrep", head |-> "semg", tail |-> "rep"],
     [marker |-> "semgrep", head |-> "semgr", tail |-> "ep"],
     [marker |-> "semgrep", head |-> "semgre", tail |-> "p"],
     [marker |-> "snyk", head |-> "s", tail |-> "nyk"],
     [marker |-> "snyk", head |-> "sn", tail |-> "yk"],
     [marker |-> "snyk", head |-> "sny", tail |-> "k"],
     [marker |-> "trivy", head |-> "t", tail |-> "rivy"],
     [marker |-> "trivy", head |-> "tr", tail |-> "ivy"],
     [marker |-> "trivy", head |-> "tri", tail |-> "vy"],
     [marker |-> "trivy", head |-> "triv", tail |-> "y"]}

\* what a text may say of its two ends: it ends with the head of a cut, it
\* begins with the tail of a cut, it is the empty string
Ends(head) == head \o "$"
Begins(tail) == "^" \o tail
EndPieces == {Ends(c.head) : c \in Cuts}
BeginPieces == {Begins(c.tail) : c \in Cuts}
EmptyText == {"^$"}

\* one tail begins another: a text that begins with "yk" begins with "y"
Closed(text) == text \cup (IF Begins("yk") \in text THEN {Begins("y")} ELSE {})

\* the texts a file of the model may hold: a text is the set of the patterns
\* and markers found in it, and of what its ends are
Texts(p) ==
    CASE p = "README.md" -> SUBSET Range(ReadmePatterns)
      [] p = "LICENSE" ->
            \* a text matching "MIT OR" also matches "MIT", and so on
            {t \in SUBSET (Range(LicensePatterns) \cup Range(PalimpsestPatterns)) :
                PalimpsestPatterns[2] \in t => LicensePatterns[2] \in t}
      [] p = "SECURITY.md" -> SUBSET Range(SecurityPatterns)
      [] p = ".well-known/security.txt" -> SUBSET Range(SecurityTxtPatterns)
      [] p = "flake.nix" -> SUBSET Range(FlakePatterns)
      [] p = ".gitlab-ci.yml" -> {{}, {"trivy"}}
      [] p \in {".github/workflows/ci.yml", ".github/workflows/scan.yml"} ->
            \* "vy ... tri" holds no marker, two such texts in a row hold
            \* "trivy"; a piece of each of the other markers, pieces that make
            \* no marker together ("sem" before "andit") and a piece that
            \* makes two ("yk" after "sn" and after "triv")
            {{}, {"trivy"}, {Ends("tri")}, {Begins("vy")}, {Begins("vy"), Ends("tri")},
             {Ends("sem")}, {Begins("grep")}, {Ends("b")}, {Begins("andit")},
             {Ends("sn")}, {Begins("yk"), Begins("y")}, {Ends("triv")}}
      [] p = "tests/test_props.py" -> {{}, {"hypothesis"}, {"CRDT"}}
      [] p = "tests/data.bin" -> {{}, {"proptest"}}
      [] p \in {"setup.py", "tools/rsr_checker.py", "scripts/rsr_checker.py"} ->
            {{}, {"automerge"}}
      [] OTHER -> {{}}

\* paths that are read, so that their mode matters
IsRead(p) == Texts(p) # {{}}

\* paths that are directories when present
IsDirectory(p) ==
    p \in {".well-known", ".github/workflows", "tests", "test", "spec", "proofs",
           "formal", "coq", "isabelle", "tla+", "crdt", "offline", "sync", "papers",
           "docs/papers", "talks", "presentations", "isos"}

\* the entries a path may hold
States(p) ==
    {Absent} \cup
    (IF p \in {".well-known", "tests", ".github/workflows"}
     THEN {Dir("ok"), Dir("listonly"), Dir("denied")}
     ELSE IF IsDirectory(p) THEN {Dir("ok")}
     ELSE IF IsRead(p)
     THEN {File("ok", t) : t \in Texts(p)} \cup
          {File("denied", {}), File("undecodable", CHOOSE t \in Texts(p) : t # {}), Dir("ok")}
     ELSE {File("ok", {})}) \cup
    (IF p \in {"tests", ".github/workflows"} THEN {File("ok", {})} ELSE {})

NoTree == [p \in Paths |-> Absent]

\* a tree holding the entries given for some of the paths
TreeOf(entries) == [p \in Paths |-> IF p \in DOMAIN entries THEN entries[p] ELSE Absent]

Plain == File("ok", {})

\* a repository that meets every Bronze requirement and nothing more
BronzeEntries ==
    [p \in {"README.md", "LICENSE", "SECURITY.md", "CONTRIBUTING.md", "CODE_OF_CONDUCT.md",
            "MAINTAINERS.md", "CHANGELOG.md", ".well-known", ".well-known/security.txt",
            ".well-known/ai.txt", ".well-known/humans.txt", "justfile", "flake.nix",
            ".gitlab-ci.yml", "GOVERNANCE.md", ".gitignore", "tests",
            "DOCUMENTATION_INDEX.md", "pyproject.toml"} |->
        CASE p = "README.md" -> File("ok", Range(ReadmePatterns))
          [] p = "LICENSE" -> File("ok", Range(LicensePatterns))
          [] p = "SECURITY.md" -> File("ok", Range(SecurityPatterns))
          [] p = ".well-known/security.txt" -> File("ok", Range(SecurityTxtPatterns))
          [] p \in {".well-known", "tests"} -> Dir("ok")
          [] OTHER -> Plain]

\* ... and every Silver requirement
SilverEntries ==
    [p \in DOMAIN BronzeEntries \cup
           {"tools/rsr_checker.py", "RSR_COMPLIANCE.md", "INSTALLATION_GUIDE.md",
            "USAGE_GUIDE.md"} |->
        CASE p = "LICENSE" ->
                File("ok", Range(LicensePatterns) \cup Range(PalimpsestPatterns))
          [] p = "flake.nix" -> File("ok", Range(FlakePatterns))
          [] p \in DOMAIN BronzeEntries -> BronzeEntries[p]
          [] OTHER -> Plain]

\* ... and every Gold requirement
GoldEntries ==
    [p \in DOMAIN SilverEntries \cup {"proofs", "Cargo.toml", "requirements.txt", "sbom.json"} |->
        CASE p = "proofs" -> Dir("ok")
          [] p \in DOMAIN SilverEntries -> SilverEntries[p]
          [] OTHER -> Plain]

\* ... and every Platinum requirement
PlatinumEntries ==
    [p \in DOMAIN GoldEntries \cup {"crdt", "PAPER.md", "talks", ".isos.toml"} |->
        CASE p \in {"crdt", "talks"} -> Dir("ok")
          [] p \in DOMAIN GoldEntries -> GoldEntries[p]
          [] OTHER -> Plain]

Profiles ==
    {NoTree, TreeOf(BronzeEntries), TreeOf(SilverEntries), TreeOf(GoldEntries),
     TreeOf(PlatinumEntries)}

\* the trees that differ from one of `trees` in at most n paths
RECURSIVE Within(_, _)
Within(trees, n) ==
    IF n = 0 THEN trees
    ELSE LET near == Within(trees, n - 1)
         IN  near \cup {[t EXCEPT ![p] = e] : t \in near, <<p, e>> \in
                           UNION {{<<q, x>> : x \in States(q)} : q \in Paths}}

----------------------------------------------------------------------------
(* The predicate library of RSRChecker.  A call returns a value or raises:  *)
(* raised is TRUE when an exception leaves the call.                        *)

\* sep.join(parts)
RECURSIVE Join(_, _)
Join(parts, sep) ==
    IF parts = <<>> THEN ""
    ELSE IF Len(parts) = 1 THEN parts[1]
    ELSE parts[1] \o sep \o Join(Tail(parts), sep)

\* seq[:n]
Prefix(seq, n) == SubSeq(seq, 1, Min(n, Len(seq)))

\* RSRChecker.check_file_exists
check_file_exists(tree, path) ==
    LET st == Stat(tree, Norm(path))
    IN  [raised |-> st = "denied", value |-> st = "found"]

\* any(self.check_file_exists(f) for f in paths), and the chains of "or"
RECURSIVE any_exists(_, _)
any_exists(tree, paths) ==
    IF paths = <<>> THEN [raised |-> FALSE, value |-> FALSE]
    ELSE LET h == check_file_exists(tree, Head(paths))
         IN  IF h.raised \/ h.value THEN h ELSE any_exists(tree, Tail(paths))

\* all(self.check_file_exists(f) for f in paths)
RECURSIVE all_exist(_, _)
all_exist(tree, paths) ==
    IF paths = <<>> THEN [raised |-> FALSE, value |-> TRUE]
    ELSE LET h == check_file_exists(tree, Head(paths))
         IN  IF h.raised \/ ~h.value THEN h ELSE all_exist(tree, Tail(paths))

\* sum(1 for g in paths if self.check_file_exists(g)); value is the count
RECURSIVE count_exist(_, _)
count_exist(tree, paths) ==
    IF paths = <<>> THEN [raised |-> FALSE, value |-> 0]
    ELSE LET h == check_file_exists(tree, Head(paths))
             t == count_exist(tree, Tail(paths))
         IN  IF h.raised THEN [raised |-> TRUE, value |-> 0]
             ELSE IF t.raised THEN t
             ELSE [raised |-> FALSE, value |-> t.value + (IF h.value THEN 1 ELSE 0)]

\* the loop of check_file_content: the patterns re.search does not find
RECURSIVE missing_patterns(_, _)
missing_patterns(patterns, text) ==
    IF patterns = <<>> THEN <<>>
    ELSE (IF Head(patterns) \in text THEN <<>> ELSE <<Head(patterns)>>)
         \o missing_patterns(Tail(patterns), text)

\* a mutant: the detail lists every missing pattern
missing_detail_all(missing) == "Missing patterns: " \o Join(missing, ", ")

\* the detail of a failed content check: the first three missing patterns
missing_detail(missing) == "Missing patterns: " \o Join(Prefix(missing, 3), ", ")

\* RSRChecker.check_file_content: (status, details); exists() is outside the try
check_file_content(tree, path, patterns) ==
    IF Stat(tree, path) = "denied" THEN [raised |-> TRUE, status |-> FALSE, details |-> ""]
    ELSE IF Stat(tree, path) = "missing"
    THEN [raised |-> FALSE, status |-> FALSE, details |-> "File " \o path \o " not found"]
    ELSE LET content == ReadStrict(tree, path)
             missing == missing_patterns(patterns, content.text)
         IN  IF content.raised
             THEN [raised |-> FALSE, status |-> FALSE,
                   details |-> "Error reading file: " \o content.error]
             ELSE IF missing # <<>>
             THEN [raised |-> FALSE, status |-> FALSE, details |-> missing_detail(missing)]
             ELSE [raised |-> FALSE, status |-> TRUE, details |-> "All required content present"]

----------------------------------------------------------------------------
(* The four checklists.  An item is one evaluated check, or the exception   *)
(* its evaluation raised; a level function assigns its list to the report   *)
(* only after every item was evaluated.                                     *)

\* a check built from a (status, details) pair
ContentItem(name, description, level, category, r) ==
    [raised |-> r.raised,
     check |-> ComplianceCheck(name, description, level, category, r.status, r.details)]

\* a check built from a boolean: details = yes if status else no
BoolItem(name, description, level, category, e, yes, no) ==
    [raised |-> e.raised,
     check |-> ComplianceCheck(name, description, level, category, e.value,
                               IF e.value THEN yes ELSE no)]

\* the list a level function builds, or the exception that ended it
ChecksOfItems(items) ==
    IF \E i \in 1..Len(items) : items[i].raised
    THEN [raised |-> TRUE, checks |-> <<>>]
    ELSE [raised |-> FALSE, checks |-> [i \in 1..Len(items) |-> items[i].check]]

\* RSRChecker.check_bronze_level
check_bronze_level(tree) ==
    ChecksOfItems(<<
        ContentItem("README.md",
            "Comprehensive README with installation, usage, features, license",
            "Bronze", "Documentation", check_file_content(tree, "README.md", ReadmePatterns)),
        ContentItem("LICENSE", "LICENSE file with SPDX identifier",
            "Bronze", "Legal", check_file_content(tree, "LICENSE", LicensePatterns)),
        ContentItem("SECURITY.md", "Security policy with vulnerability disclosure process",
            "Bronze", "Security", check_file_content(tree, "SECURITY.md", SecurityPatterns)),
        BoolItem("CONTRIBUTING.md", "Contribution guidelines", "Bronze", "Community",
            check_file_exists(tree, "CONTRIBUTING.md"), "Found", "Missing"),
        BoolItem("CODE_OF_CONDUCT.md", "Code of conduct for community", "Bronze", "Community",
            check_file_exists(tree, "CODE_OF_CONDUCT.md"), "Found", "Missing"),
        BoolItem("MAINTAINERS.md", "List of project maintainers", "Bronze", "Governance",
            check_file_exists(tree, "MAINTAINERS.md"), "Found", "Missing"),
        BoolItem("CHANGELOG.md", "Version history and changes", "Bronze", "Documentation",
            check_file_exists(tree, "CHANGELOG.md"), "Found", "Missing"),
        ContentItem(".well-known/security.txt", "RFC 9116 compliant security.txt",
            "Bronze", "Security",
            check_file_content(tree, ".well-known/security.txt", SecurityTxtPatterns)),
        BoolItem(".well-known/ai.txt", "AI training policy declaration", "Bronze", "Legal",
            check_file_exists(tree, ".well-known/ai.txt"), "Found", "Missing"),
        BoolItem(".well-known/humans.txt", "Team attribution file", "Bronze", "Community",
            check_file_exists(tree, ".well-known/humans.txt"), "Found", "Missing"),
        BoolItem("Build system", "justfile or Makefile for build automation", "Bronze", "Build",
            any_exists(tree, <<"justfile", "Makefile">>), "Found", "Missing"),
        BoolItem("flake.nix", "Nix flakes for reproducible builds", "Bronze", "Build",
            check_file_exists(tree, "flake.nix"), "Found", "Missing"),
        BoolItem("CI/CD", "Continuous integration configuration", "Bronze", "Build",
            any_exists(tree, <<".gitlab-ci.yml", ".github/workflows", ".circleci/config.yml">>),
            "Found", "Missing"),
        BoolItem("TPCF Governance", "Tri-Perimeter Contribution Framework documentation",
            "Bronze", "Governance",
            any_exists(tree, <<"governance/TPCF.md", "governance/PROJECT_GOVERNANCE.md",
                               "GOVERNANCE.md">>), "Found", "Missing"),
        BoolItem(".gitignore", "Git ignore file", "Bronze", "Build",
            check_file_exists(tree, ".gitignore"), "Found", "Missing"),
        BoolItem("Test structure", "Test directory or files", "Bronze", "Quality",
            any_exists(tree, <<"tests", "test", "spec">>), "Found", "Missing"),
        BoolItem("Documentation index", "Centralized documentation navigation",
            "Bronze", "Documentation",
            any_exists(tree, <<"DOCUMENTATION_INDEX.md", "docs/README.md">>), "Found", "Missing"),
        BoolItem("Project metadata", "Language-specific project metadata file", "Bronze", "Build",
            any_exists(tree, <<"package.json", "Cargo.toml", "pyproject.toml", "setup.py",
                               "setup.cfg">>), "Found", "Missing")>>)

\* RSRChecker.check_silver_level
check_silver_level(tree) ==
    LET has_license == check_file_exists(tree, "LICENSE")
        has_flake == check_file_exists(tree, "flake.nix")
        guides == count_exist(tree, <<"INSTALLATION_GUIDE.md", "USAGE_GUIDE.md", "FEATURES.md">>)
    IN  ChecksOfItems(<<
        BoolItem("RSR checker tool", "Automated compliance verification tool", "Silver", "Quality",
            any_exists(tree, <<"tools/rsr_checker.py", "scripts/rsr_checker.py">>),
            "Found", "Missing"),
        BoolItem("RSR_COMPLIANCE.md", "Detailed compliance assessment", "Silver", "Documentation",
            check_file_exists(tree, "RSR_COMPLIANCE.md"), "Found", "Missing"),
        ContentItem("Palimpsest licensing", "Dual licensing with Palimpsest framework",
            "Silver", "Legal",
            IF has_license.raised THEN [raised |-> TRUE, status |-> FALSE, details |-> ""]
            ELSE IF has_license.value THEN check_file_content(tree, "LICENSE", PalimpsestPatterns)
            ELSE [raised |-> FALSE, status |-> FALSE, details |-> "LICENSE file not found"]),
        BoolItem("Complete .well-known", "All required .well-known files present",
            "Silver", "Security",
            all_exist(tree, <<".well-known/security.txt", ".well-known/ai.txt",
                              ".well-known/humans.txt">>), "Complete", "Incomplete"),
        [raised |-> guides.raised,
         check |-> ComplianceCheck("Advanced documentation",
                       "Multiple comprehensive guides (installation, usage, features)",
                       "Silver", "Documentation", guides.value >= 2,
                       ToString(guides.value) \o "/3 guides found")],
        ContentItem("Nix flakes", "Complete Nix flakes configuration", "Silver", "Build",
            IF has_flake.raised THEN [raised |-> TRUE, status |-> FALSE, details |-> ""]
            ELSE IF has_flake.value THEN check_file_content(tree, "flake.nix", FlakePatterns)
            ELSE [raised |-> FALSE, status |-> FALSE, details |-> "flake.nix not found"])>>)

\* any(marker in content for marker in markers)
any_in(markers, text) == \E i \in 1..Len(markers) : markers[i] \in text

\* str.lower() on the features of a text
LowerText(text) == {IF w = "CRDT" THEN "crdt" ELSE w : w \in text}

\* the loop over (repo_path / "tests").rglob("*"): is_file() is outside the
\* try, read_text(errors='ignore') inside it
RECURSIVE scan_tests(_, _)
scan_tests(tree, files) ==
    IF files = <<>> THEN [raised |-> FALSE, value |-> FALSE]
    ELSE LET f == Head(files)
             content == ReadLenient(tree, f)
         IN  IF Stat(tree, f) = "denied" THEN [raised |-> TRUE, value |-> FALSE]
             ELSE IF /\ tree[f].kind = "file"
                     /\ ~content.raised
                     /\ any_in(PropertyLibs, content.text)
             THEN [raised |-> FALSE, value |-> TRUE]
             ELSE scan_tests(tree, Tail(files))

\* has_property_tests of the first Gold check: the outcomes it may have, one
\* for each order in which the tests directory may be walked
has_property_tests(tree) ==
    IF check_file_exists(tree, "tests").raised \/ ~check_file_exists(tree, "tests").value
    THEN {[raised |-> check_file_exists(tree, "tests").raised, value |-> FALSE]}
    ELSE {scan_tests(tree, files) : files \in rglob(tree, "tests", "*")}

\* lang_indicators, in dictionary order
lang_indicators ==
    <<[lang |-> "Python", indicators |-> <<"*.py", "setup.py", "pyproject.toml">>],
      [lang |-> "Rust", indicators |-> <<"Cargo.toml", "src/*.rs">>],
      [lang |-> "JavaScript", indicators |-> <<"package.json", "*.js">>],
      [lang |-> "TypeScript", indicators |-> <<"tsconfig.json", "*.ts">>],
      [lang |-> "Go", indicators |-> <<"go.mod", "*.go">>],
      [lang |-> "Ada", indicators |-> <<"*.adb", "*.ads">>],
      [lang |-> "Elixir", indicators |-> <<"mix.exs", "*.ex">>],
      [lang |-> "Haskell", indicators |-> <<"*.hs", "stack.yaml">>]>>

\* languages_found of the second Gold check
languages_found(tree) ==
    LET found == SelectSeq(lang_indicators,
                     LAMBDA l : \E i \in 1..Len(l.indicators) :
                                    \E files \in rglob(tree, "", l.indicators[i]) :
                                        files # <<>>)
    IN  [i \in 1..Len(found) |-> found[i].lang]

\* a + b on two texts: the markers of both, every marker that arises where
\* a ends with the head and b begins with the tail of one of its cuts, the
\* beginning of a and the end of b.  The markers are those of the joined
\* string for any two texts; the ends are those of the joined string when
\* neither text is shorter than a piece.
Concat(a, b) ==
    IF a = EmptyText THEN b
    ELSE IF b = EmptyText THEN a
    ELSE ((a \cup b) \ (BeginPieces \cup EndPieces))
         \cup (Closed(a) \cap BeginPieces) \cup (b \cap EndPieces)
         \cup {c.marker : c \in {d \in Cuts : /\ Ends(d.head) \in a
                                               /\ Begins(d.tail) \in Closed(b)}}

\* content = ""; content += wf.read_text(encoding='utf-8') for each workflow
\* file: the texts one after the other with nothing between them
RECURSIVE read_all(_, _)
read_all(tree, files) ==
    IF files = <<>> THEN [raised |-> FALSE, text |-> EmptyText]
    ELSE LET h == ReadStrict(tree, Head(files))
             t == read_all(tree, Tail(files))
         IN  [raised |-> h.raised \/ t.raised, text |-> Concat(h.text, t.text)]

\* content of one CI location: the file's text, or the texts of the workflow
\* files put together, in each order the directory may be walked
ci_contents(tree, f) ==
    IF tree[f].kind = "file" THEN {ReadStrict(tree, f)}
    ELSE {read_all(tree, files) : files \in rglob(tree, f, "*.yml")}

\* the loop over the two CI locations of the third Gold check: TRUE when
\* "Security scanning" is appended; an exception in one location is swallowed
\* and the loop goes on to the next.  The outcomes the loop may have.
RECURSIVE scan_ci(_, _)
scan_ci(tree, ci_files) ==
    IF ci_files = <<>> THEN {[raised |-> FALSE, value |-> FALSE]}
    ELSE IF check_file_exists(tree, Head(ci_files)).raised
    THEN {[raised |-> TRUE, value |-> FALSE]}
    ELSE IF ~check_file_exists(tree, Head(ci_files)).value
    THEN scan_ci(tree, Tail(ci_files))
    ELSE UNION {IF ~content.raised /\ any_in(ScannerTools, content.text)
                THEN {[raised |-> FALSE, value |-> TRUE]}
                ELSE scan_ci(tree, Tail(ci_files)) :
                    content \in ci_contents(tree, Head(ci_files))}

\* security_features once the CI loop, the dependency files and the SBOM
\* files were looked at
features_of(scanning, deps, sbom) ==
    [raised |-> scanning.raised \/ deps.raised \/ sbom.raised,
     value |-> (IF scanning.value THEN <<"Security scanning">> ELSE <<>>)
               \o (IF deps.value THEN <<"Dependency management">> ELSE <<>>)
               \o (IF sbom.value THEN <<"SBOM">> ELSE <<>>)]

\* security_features of the third Gold check: the values it may have
security_features(tree) ==
    {features_of(scanning, any_exists(tree, <<"requirements.txt", "Cargo.lock">>),
                 any_exists(tree, <<"sbom.json", "bom.xml">>)) :
        scanning \in scan_ci(tree, <<".gitlab-ci.yml", ".github/workflows">>)}

\* the three Gold checks, built from the four values the function computes
\* first: has_formal, has_tests, languages and features
gold_items(has_formal, has_tests, languages, features) ==
    <<  [raised |-> has_formal.raised \/ has_tests.raised,
         check |-> ComplianceCheck("Formal verification",
                       "Formal proofs or property-based testing", "Gold", "Quality",
                       has_formal.value \/ has_tests.value,
                       IF has_formal.value \/ has_tests.value
                       THEN Join((IF has_formal.value THEN <<"Formal verification">> ELSE <<>>)
                                 \o (IF has_tests.value THEN <<"Property-based testing">>
                                     ELSE <<>>), ", ")
                       ELSE "Not found")],
        [raised |-> FALSE,
         check |-> ComplianceCheck("Multi-language support",
                       "Support for 2+ programming languages", "Gold", "Architecture",
                       Len(languages) >= 2,
                       IF languages # <<>> THEN "Languages: " \o Join(languages, ", ")
                       ELSE "Single language")],
        [raised |-> features.raised,
         check |-> ComplianceCheck("Advanced security",
                       "Security scanning, SBOM, or other advanced features", "Gold", "Security",
                       Len(features.value) >= 2,
                       IF features.value # <<>> THEN Join(features.value, ", ")
                       ELSE "Not found")]>>

\* RSRChecker.check_gold_level: the lists it may build
check_gold_level(tree) ==
    {ChecksOfItems(gold_items(
         any_exists(tree, <<"proofs/", "formal/", "coq/", "isabelle/", "tla+/">>),
         has_tests, languages_found(tree), features)) :
        has_tests \in has_property_tests(tree), features \in security_features(tree)}

\* the loop over repo_path.rglob("*.py") of the first Platinum check
RECURSIVE scan_crdt(_, _)
scan_crdt(tree, files) ==
    IF files = <<>> THEN FALSE
    ELSE LET content == ReadLenient(tree, Head(files))
         IN  IF ~content.raised /\ any_in(CrdtTerms, LowerText(content.text)) THEN TRUE
             ELSE scan_crdt(tree, Tail(files))

\* the four Platinum checks, given what the walk over *.py found
platinum_items(tree, has_crdt_dir, has_crdt_code) ==
    <<  BoolItem("CRDT/Offline-first",
            "Conflict-free replicated data types or offline-first architecture",
            "Platinum", "Architecture",
            [raised |-> has_crdt_dir.raised, value |-> has_crdt_dir.value \/ has_crdt_code],
            "Found", "Not found"),
        BoolItem("Academic paper", "Research paper or formal publication",
            "Platinum", "Research",
            any_exists(tree, <<"papers/", "docs/papers/", "PAPER.md">>), "Found", "Not found"),
        BoolItem("Conference materials", "Talk proposals, slides, or presentation materials",
            "Platinum", "Research",
            any_exists(tree, <<"docs/conference-materials.md", "talks/", "presentations/">>),
            "Found", "Not found"),
        BoolItem("iSOS integration", "Integrated Sovereign Operating System framework",
            "Platinum", "Architecture",
            any_exists(tree, <<"isos/", "docs/isos.md", ".isos.toml">>),
            "Found", "Not found")>>

\* RSRChecker.check_platinum_level: the lists it may build
check_platinum_level(tree) ==
    {ChecksOfItems(platinum_items(tree, any_exists(tree, <<"crdt/", "offline/", "sync/">>),
                                  scan_crdt(tree, files))) :
        files \in rglob(tree, "", "*.py")}

\* the four assignments of run_checks, given what the level functions gave:
\* the first that raised ends the run with the earlier lists replaced
assign_levels(r, b, s, g, p) ==
    IF b.raised THEN [raised |-> TRUE, report |-> r]
    ELSE IF s.raised
    THEN [raised |-> TRUE, report |-> [r EXCEPT !.bronze_checks = b.checks]]
    ELSE IF g.raised
    THEN [raised |-> TRUE, report |-> [r EXCEPT !.bronze_checks = b.checks,
                                                !.silver_checks = s.checks]]
    ELSE IF p.raised
    THEN [raised |-> TRUE, report |-> [r EXCEPT !.bronze_checks = b.checks,
                                                !.silver_checks = s.checks,
                                                !.gold_checks = g.checks]]
    ELSE [raised |-> FALSE, report |-> [r EXCEPT !.bronze_checks = b.checks,
                                                 !.silver_checks = s.checks,
                                                 !.gold_checks = g.checks,
                                                 !.platinum_checks = p.checks]]

\* RSRChecker.run_checks on report r: the four level functions in order; each
\* replaces its list; an exception leaves the later lists as they were
run_checks(tree, r) ==
    {assign_levels(r, b, s, g, p) :
        b \in {check_bronze_level(tree)}, s \in {check_silver_level(tree)},
        g \in check_gold_level(tree), p \in check_platinum_level(tree)}

----------------------------------------------------------------------------
(* The export adapters.                                                    *)

\* a mutant: the score's passed field is given the total
level_json_total(r, level) ==
    LET score == get_level_score(r, Capitalize(level))
        checks == r[level \o "_checks"]
    IN  [score |-> [passed |-> score[2], total |-> score[2], percentage |-> score[3]],
         checks |-> [i \in 1..Len(checks) |->
                        [name |-> checks[i].name, description |-> checks[i].description,
                         category |-> checks[i].category, status |-> checks[i].status,
                         details |-> checks[i].details]]]

\* data["levels"][level] of export_json, level being "bronze", "silver", ...
level_json(r, level) ==
    LET score == get_level_score(r, Capitalize(level))
        checks == r[level \o "_checks"]
    IN  [score |-> [passed |-> score[1], total |-> score[2], percentage |-> score[3]],
         checks |-> [i \in 1..Len(checks) |->
                        [name |-> checks[i].name, description |-> checks[i].description,
                         category |-> checks[i].category, status |-> checks[i].status,
                         details |-> checks[i].details]]]

\* RSRChecker.export_json: the document json.dump writes (the timestamp and
\* the repository path are left out)
export_json(r) ==
    [kind |-> "json",
     overall_level |-> get_overall_level(r),
     levels |-> [level \in Range(LevelKeys) |-> level_json(r, level)]]

\* the level strings generate_badge is given: the five that get_overall_level
\* returns, and strings no branch of it returns: one with a space, and one
\* that differs from a key of the table in case only
OtherLevels == {"Diamond", "Rhodium Plus", "platinum"}

\* level.replace(' ', '%20'), on the level strings above
PercentEncode(level) ==
    CASE level = "Rhodium Plus" -> "Rhodium%20Plus"
      [] OTHER -> level

\* a mutant: the lookup has no default colour of its own and gives "red"
badge_color_red(level) ==
    CASE level = "Platinum" -> "purple"
      [] level = "Gold" -> "yellow"
      [] level = "Silver" -> "silver"
      [] level = "Bronze" -> "orange"
      [] OTHER -> "red"

\* colors.get(level, "lightgrey")
badge_color(level) ==
    CASE level = "Platinum" -> "purple"
      [] level = "Gold" -> "yellow"
      [] level = "Silver" -> "silver"
      [] level = "Bronze" -> "orange"
      [] level = "Non-compliant" -> "red"
      [] OTHER -> "lightgrey"

\* badge_url of generate_badge, for the level its report gave
badge_url(level) ==
    "https://img.shields.io/badge/RSR-" \o PercentEncode(level) \o "-" \o badge_color(level)

\* RSRChecker.generate_badge: the badge URL
generate_badge(r) == badge_url(get_overall_level(r))

----------------------------------------------------------------------------
(* Return values.                                                          *)

NoResult == [op |-> "none", arg |-> "", value |-> <<>>]
Returned(op, arg, value) == [op |-> op, arg |-> arg, value |-> value]

NoFile == [kind |-> "none"]

\* the output file after open(output_path, 'w') emptied it and a write into
\* it failed: the beginning of the document, not a JSON document
Truncated == [kind |-> "truncated"]

\* what writing the output file may come to: the document is written,
\* open() raises OSError, or open() succeeds and a write raises OSError
WriteOutcomes == {"written", "open fails", "write fails"}

\* the output file after export_json on report r
file_after(outcome, before, r) ==
    CASE outcome = "written" -> export_json(r)
      [] outcome = "open fails" -> before
      [] outcome = "write fails" -> Truncated
NoExit == -1
NoArgs == [quiet |-> FALSE, json |-> FALSE, badge |-> FALSE]

----------------------------------------------------------------------------
(* Directly constructed reports: ComplianceReport(bronze_checks = ...).    *)

\* the number of checks each checklist of the program records
ReferenceSize(level) ==
    CASE level = "Bronze" -> 18
      [] level = "Silver" -> 6
      [] level = "Gold" -> 3
      [] level = "Platinum" -> 4

AllStatusLists(n) == UNION {[1..k -> BOOLEAN] : k \in 0..n}

\* reference-size lists: every check passing, none passing, exactly the first
\* or exactly the last failing
NearLists(n) ==
    {[j \in 1..n |-> TRUE], [j \in 1..n |-> FALSE],
     [j \in 1..n |-> j # 1], [j \in 1..n |-> j # n]}

StatusLists(level) ==
    AllStatusLists(MaxChecks) \cup
    (IF level \in {"Gold", "Platinum"}
     THEN [1..ReferenceSize(level) -> BOOLEAN]
     ELSE NearLists(ReferenceSize(level)))

ChecksOf(level, statuses) ==
    [i \in 1..Len(statuses) |->
        ComplianceCheck("check", "", level, "", statuses[i], "")]

InitScore ==
    /\ \E b \in StatusLists("Bronze"), s \in StatusLists("Silver"),
          g \in StatusLists("Gold"), p \in StatusLists("Platinum") :
          report = [bronze_checks |-> ChecksOf("Bronze", b),
                    silver_checks |-> ChecksOf("Silver", s),
                    gold_checks |-> ChecksOf("Gold", g),
                    platinum_checks |-> ChecksOf("Platinum", p)]
    /\ fs = NoTree
    /\ args = NoArgs
    /\ pc = "report"
    /\ result = NoResult
    /\ written = NoFile
    /\ runs = 0
    /\ calls = 0
    /\ exit_code = NoExit

\* report.get_level_score(level)
GetLevelScore ==
    /\ pc = "report"
    /\ \E level \in Levels :
          result' = Returned("get_level_score", level, get_level_score(report, level))
    /\ UNCHANGED <<fs, args, pc, report, written, runs, calls, exit_code>>

\* report.get_overall_level()
GetOverallLevel ==
    /\ pc = "report"
    /\ result' = Returned("get_overall_level", "", get_overall_level(report))
    /\ UNCHANGED <<fs, args, pc, report, written, runs, calls, exit_code>>

NextScore == GetLevelScore \/ GetOverallLevel

SpecScore == InitScore /\ [][NextScore]_vars

----------------------------------------------------------------------------
(* generate_badge called on directly constructed reports, and on a checker *)
(* whose report attribute is an object of another class.                   *)

\* checker.generate_badge()
GenerateBadge ==
    /\ pc = "report"
    /\ result' = Returned("generate_badge", "", generate_badge(report))
    /\ UNCHANGED <<fs, args, pc, report, written, runs, calls, exit_code>>

\* checker.generate_badge() when checker.report.get_overall_level() returns a
\* string that ComplianceReport never returns
GenerateBadgeOther ==
    /\ pc = "report"
    /\ \E level \in OtherLevels :
          result' = Returned("generate_badge", level, badge_url(level))
    /\ UNCHANGED <<fs, args, pc, report, written, runs, calls, exit_code>>

NextBadge == GenerateBadge \/ GenerateBadgeOther

SpecBadge == InitScore /\ [][NextBadge]_vars

----------------------------------------------------------------------------
(* Reports whose checks are constructed with required and weight given:    *)
(* ComplianceCheck(..., required=False, weight=2.0).                       *)

\* ways of giving the two fields to the checks of a report
FieldPatterns ==
    {"defaults", "optional", "weightless", "by_position", "failing_optional",
     "passing_optional"}

\* the required and weight of the check at position i with the given status
FieldsOf(pattern, i, status) ==
    CASE pattern = "defaults" -> [required |-> TRUE, weight |-> 1]
      [] pattern = "optional" -> [required |-> FALSE, weight |-> 1]
      [] pattern = "weightless" -> [required |-> TRUE, weight |-> 0]
      [] pattern = "by_position" -> [required |-> i % 2 = 1, weight |-> i % 3]
      [] pattern = "failing_optional" ->
            [required |-> status, weight |-> IF status THEN 1 ELSE 0]
      [] pattern = "passing_optional" ->
            [required |-> ~status, weight |-> IF status THEN 0 ELSE 2]

\* the checks with their status kept and the two fields given by the pattern
FieldsGiven(checks, pattern) ==
    [i \in 1..Len(checks) |->
        [checks[i] EXCEPT !.required = FieldsOf(pattern, i, checks[i].status).required,
                          !.weight = FieldsOf(pattern, i, checks[i].status).weight]]

WithFields(r, pattern) ==
    [bronze_checks |-> FieldsGiven(r.bronze_checks, pattern),
     silver_checks |-> FieldsGiven(r.silver_checks, pattern),
     gold_checks |-> FieldsGiven(r.gold_checks, pattern),
     platinum_checks |-> FieldsGiven(r.platinum_checks, pattern)]

\* Bronze and Silver lists of reference size, Gold and Platinum lists of
\* every length up to theirs
InitFields ==
    /\ \E b \in NearLists(ReferenceSize("Bronze")), s \in NearLists(ReferenceSize("Silver")),
          g \in StatusLists("Gold"), p \in StatusLists("Platinum"),
          pattern \in FieldPatterns :
          report = WithFields([bronze_checks |-> ChecksOf("Bronze", b),
                               silver_checks |-> ChecksOf("Silver", s),
                               gold_checks |-> ChecksOf("Gold", g),
                               platinum_checks |-> ChecksOf("Platinum", p)], pattern)
    /\ fs = NoTree
    /\ args = NoArgs
    /\ pc = "report"
    /\ result = NoResult
    /\ written = NoFile
    /\ runs = 0
    /\ calls = 0
    /\ exit_code = NoExit

SpecFields == InitFields /\ [][NextScore]_vars

----------------------------------------------------------------------------
(* An RSRChecker used as a library: its methods called in any order, up to  *)
(* MaxCalls calls on one checker.                                          *)

\* every profile, and every profile with the entry of one path replaced
Trees == Within(Profiles, 1)

\* the calls of check_file_content in the checklists
ContentCalls ==
    {<<"README.md", ReadmePatterns>>, <<"LICENSE", LicensePatterns>>,
     <<"SECURITY.md", SecurityPatterns>>, <<".well-known/security.txt", SecurityTxtPatterns>>,
     <<"LICENSE", PalimpsestPatterns>>, <<"flake.nix", FlakePatterns>>}

\* RSRChecker(repo_path)
InitChecker ==
    /\ fs \in Trees
    /\ args = NoArgs
    /\ pc = "checker"
    /\ report = ComplianceReport
    /\ result = NoResult
    /\ written = NoFile
    /\ runs = 0
    /\ calls = 0
    /\ exit_code = NoExit

\* checker.check_bronze_level()
CheckBronzeLevel ==
    /\ pc = "checker"
    /\ calls < MaxCalls
    /\ \E o \in {check_bronze_level(fs)} :
          /\ report' = IF o.raised THEN report ELSE [report EXCEPT !.bronze_checks = o.checks]
          /\ result' = Returned("check_bronze_level", "",
                                IF o.raised THEN "PermissionError" ELSE "None")
    /\ calls' = calls + 1
    /\ UNCHANGED <<fs, args, pc, written, runs, exit_code>>

\* checker.check_silver_level()
CheckSilverLevel ==
    /\ pc = "checker"
    /\ calls < MaxCalls
    /\ \E o \in {check_silver_level(fs)} :
          /\ report' = IF o.raised THEN report ELSE [report EXCEPT !.silver_checks = o.checks]
          /\ result' = Returned("check_silver_level", "",
                                IF o.raised THEN "PermissionError" ELSE "None")
    /\ calls' = calls + 1
    /\ UNCHANGED <<fs, args, pc, written, runs, exit_code>>

\* checker.check_gold_level()
CheckGoldLevel ==
    /\ pc = "checker"
    /\ calls < MaxCalls
    /\ \E o \in check_gold_level(fs) :
          /\ report' = IF o.raised THEN report ELSE [report EXCEPT !.gold_checks = o.checks]
          /\ result' = Returned("check_gold_level", "",
                                IF o.raised THEN "PermissionError" ELSE "None")
    /\ calls' = calls + 1
    /\ UNCHANGED <<fs, args, pc, written, runs, exit_code>>

\* checker.check_platinum_level()
CheckPlatinumLevel ==
    /\ pc = "checker"
    /\ calls < MaxCalls
    /\ \E o \in check_platinum_level(fs) :
          /\ report' = IF o.raised THEN report
                       ELSE [report EXCEPT !.platinum_checks = o.checks]
          /\ result' = Returned("check_platinum_level", "",
                                IF o.raised THEN "PermissionError" ELSE "None")
    /\ calls' = calls + 1
    /\ UNCHANGED <<fs, args, pc, written, runs, exit_code>>

\* checker.run_checks()
RunChecks ==
    /\ pc = "checker"
    /\ calls < MaxCalls
    /\ \E o \in run_checks(fs, report) :
           /\ report' = o.report
           /\ result' = Returned("run_checks", "", IF o.raised THEN "PermissionError" ELSE "None")
           /\ runs' = IF o.raised \/ runs = MaxRuns THEN runs ELSE runs + 1
    /\ calls' = calls + 1
    /\ UNCHANGED <<fs, args, pc, written, exit_code>>

\* checker.export_json(): the document is written, or open(output_path, 'w')
\* raises OSError and the file is as before, or a write raises OSError and
\* the file is left cut short
ExportJson ==
    /\ pc = "checker"
    /\ calls < MaxCalls
    /\ \E outcome \in WriteOutcomes :
          /\ written' = file_after(outcome, written, report)
          /\ result' = Returned("export_json", "",
                                IF outcome = "written" THEN "None" ELSE "OSError")
    /\ calls' = calls + 1
    /\ UNCHANGED <<fs, args, pc, report, runs, exit_code>>

NextChecker ==
    \/ CheckBronzeLevel
    \/ CheckSilverLevel
    \/ CheckGoldLevel
    \/ CheckPlatinumLevel
    \/ RunChecks
    \/ ExportJson

SpecChecker == InitChecker /\ [][NextChecker]_vars

----------------------------------------------------------------------------
(* check_file_content called on its own, with the arguments the checklists *)
(* give it.                                                                *)

InitContent ==
    /\ fs \in Trees
    /\ args = NoArgs
    /\ pc = "content"
    /\ report = ComplianceReport
    /\ result = NoResult
    /\ written = NoFile
    /\ runs = 0
    /\ calls = 0
    /\ exit_code = NoExit

\* checker.check_file_content(path, patterns)
CheckFileContent ==
    /\ pc = "content"
    /\ \E c \in ContentCalls :
          result' = Returned("check_file_content", c, check_file_content(fs, c[1], c[2]))
    /\ UNCHANGED <<fs, args, pc, report, written, runs, calls, exit_code>>

NextContent == CheckFileContent

SpecContent == InitContent /\ [][NextContent]_vars

----------------------------------------------------------------------------
(* check_gold_level called on a checker, on every arrangement of the paths *)
(* its third check looks at.                                               *)

\* the two CI locations with the workflow files, the two dependency files
\* and the two SBOM files, each in every state it may hold
InitSecurity ==
    /\ \E gitlab \in States(".gitlab-ci.yml"), workflows \in States(".github/workflows"),
          ci \in States(".github/workflows/ci.yml"),
          scan \in States(".github/workflows/scan.yml"),
          requirements \in States("requirements.txt"), lock \in States("Cargo.lock"),
          sbom \in States("sbom.json"), bom \in States("bom.xml") :
          fs = TreeOf(".gitlab-ci.yml" :> gitlab @@ ".github/workflows" :> workflows @@
                      ".github/workflows/ci.yml" :> ci @@ ".github/workflows/scan.yml" :> scan @@
                      "requirements.txt" :> requirements @@ "Cargo.lock" :> lock @@
                      "sbom.json" :> sbom @@ "bom.xml" :> bom)
    /\ args = NoArgs
    /\ pc = "checker"
    /\ report = ComplianceReport
    /\ result = NoResult
    /\ written = NoFile
    /\ runs = 0
    /\ calls = 0
    /\ exit_code = NoExit

NextSecurity == CheckGoldLevel

SpecSecurity == InitSecurity /\ [][NextSecurity]_vars

----------------------------------------------------------------------------
(* main(): one run of the command line.                                    *)

Args == [quiet : BOOLEAN, json : BOOLEAN, badge : BOOLEAN]

Init ==
    /\ fs \in Trees
    /\ args \in Args
    /\ pc = "run_checks"
    /\ report = ComplianceReport
    /\ result = NoResult
    /\ written = NoFile
    /\ runs = 0
    /\ calls = 0
    /\ exit_code = NoExit

\* an uncaught exception ends the interpreter with status 1
Crash == pc' = "crashed" /\ exit_code' = 1

\* checker.run_checks()
MainRunChecks ==
    /\ pc = "run_checks"
    /\ \E o \in run_checks(fs, report) :
           /\ report' = o.report
           /\ IF o.raised
              THEN /\ result' = Returned("run_checks", "", "PermissionError")
                   /\ runs' = runs
                   /\ Crash
              ELSE /\ result' = Returned("run_checks", "", "None")
                   /\ runs' = runs + 1
                   /\ pc' = "print_report"
                   /\ exit_code' = exit_code
    /\ UNCHANGED <<fs, args, written, calls>>

\* if not args.quiet: checker.print_report()
MainPrintReport ==
    /\ pc = "print_report"
    /\ pc' = "export_json"
    /\ result' = IF args.quiet THEN result
                 ELSE Returned("print_report", "", get_overall_level(report))
    /\ UNCHANGED <<fs, args, report, written, runs, calls, exit_code>>

\* if args.json: checker.export_json(args.json_output)
MainExportJson ==
    /\ pc = "export_json"
    /\ IF args.json
       THEN \E outcome \in WriteOutcomes :
               /\ written' = file_after(outcome, written, report)
               /\ IF outcome = "written"
                  THEN /\ result' = Returned("export_json", "", "None")
                       /\ pc' = "generate_badge"
                       /\ exit_code' = exit_code
                  ELSE /\ result' = Returned("export_json", "", "OSError")
                       /\ Crash
       ELSE /\ pc' = "generate_badge"
            /\ UNCHANGED <<written, result, exit_code>>
    /\ UNCHANGED <<fs, args, report, runs, calls>>

\* if args.badge: checker.generate_badge()
MainGenerateBadge ==
    /\ pc = "generate_badge"
    /\ pc' = "exit"
    /\ result' = IF args.badge THEN Returned("generate_badge", "", generate_badge(report))
                 ELSE result
    /\ UNCHANGED <<fs, args, report, written, runs, calls, exit_code>>

\* sys.exit(1) if the overall level is "Non-compliant", else sys.exit(0)
MainExit ==
    /\ pc = "exit"
    /\ pc' = "done"
    /\ exit_code' = IF get_overall_level(report) = "Non-compliant" THEN 1 ELSE 0
    /\ UNCHANGED <<fs, args, report, result, written, runs, calls>>

Next ==
    \/ MainRunChecks
    \/ MainPrintReport
    \/ MainExportJson
    \/ MainGenerateBadge
    \/ MainExit

Spec == Init /\ [][Next]_vars

----------------------------------------------------------------------------
(* Claims about the report aggregator, checked under SpecScore.            *)

BronzePct == get_level_score(report, "Bronze")[3]
SilverPct == get_level_score(report, "Silver")[3]
GoldPct == get_level_score(report, "Gold")[3]
PlatinumPct == get_level_score(report, "Platinum")[3]

OverallReturned == result.op = "get_overall_level"

AllPass(checks) == checks # <<>> /\ \A i \in 1..Len(checks) : checks[i].status

\* C1: whenever the Bronze percentage is below 100, get_overall_level()
\* returns "Non-compliant", whatever the other three levels hold.
C1_BronzeGate ==
    (OverallReturned /\ PctLT(BronzePct, 100)) => result.value = "Non-compliant"

\* C1 witness: Bronze is incomplete while Silver, Gold and Platinum all pass,
\* and the level returned is "Non-compliant".
C1_Witness ==
    /\ OverallReturned
    /\ PctLT(BronzePct, 100)
    /\ Len(report.bronze_checks) = 18
    /\ AllPass(report.silver_checks)
    /\ AllPass(report.gold_checks)
    /\ AllPass(report.platinum_checks)
    /\ result.value = "Non-compliant"

\* the four gates of the overall level, lowest first, and the level returned
\* when a gate is the first to fail
Gate(k) ==
    CASE k = 1 -> PctEQ(BronzePct, 100)
      [] k = 2 -> PctEQ(SilverPct, 100)
      [] k = 3 -> PctGE(GoldPct, 66)
      [] k = 4 -> PctGE(PlatinumPct, 66)

Below == <<"Non-compliant", "Bronze", "Silver", "Gold">>

Rank(level) ==
    CASE level = "Non-compliant" -> 0
      [] level = "Bronze" -> 1
      [] level = "Silver" -> 2
      [] level = "Gold" -> 3
      [] level = "Platinum" -> 4

\* C2: get_overall_level() is "Platinum" exactly when Bronze = 100, Silver = 100,
\* Gold >= 66 and Platinum >= 66; when exactly one of the four fails, the
\* result is the tier just below the failing gate.
C2_PlatinumIff ==
    OverallReturned =>
        /\ (result.value = "Platinum") <=> (\A k \in 1..4 : Gate(k))
        /\ \A k \in 1..4 :
              (~Gate(k) /\ \A j \in (1..4) \ {k} : Gate(j)) => result.value = Below[k]

\* C2 witness: only the Gold gate fails (1 of 3 Gold checks) and the level
\* returned is "Silver"
C2_Witness ==
    /\ OverallReturned
    /\ Gate(1) /\ Gate(2) /\ ~Gate(3) /\ Gate(4)
    /\ Len(report.gold_checks) = 3
    /\ result.value = "Silver"

\* C3: get_overall_level() is the first matching row of the sequential gate:
\* "Bronze" iff Bronze = 100 and Silver < 100; "Silver" iff Bronze = 100,
\* Silver = 100 and Gold < 66; "Gold" iff Bronze = 100, Silver = 100, Gold >= 66
\* and Platinum < 66; a failed gate is never passed by a higher tier's score.
C3_SequentialGate ==
    OverallReturned =>
        /\ (result.value = "Bronze") <=> (Gate(1) /\ ~Gate(2))
        /\ (result.value = "Silver") <=> (Gate(1) /\ Gate(2) /\ ~Gate(3))
        /\ (result.value = "Gold") <=> (Gate(1) /\ Gate(2) /\ Gate(3) /\ ~Gate(4))
        /\ \A k \in 1..4 : ~Gate(k) => Rank(result.value) < k

\* C3 witness: Silver is incomplete while Gold and Platinum are complete, and
\* the level returned is "Bronze"
C3_Witness ==
    /\ OverallReturned
    /\ Gate(1) /\ ~Gate(2)
    /\ Len(report.silver_checks) = 6
    /\ AllPass(report.gold_checks) /\ AllPass(report.platinum_checks)
    /\ result.value = "Bronze"

\* the list a level name selects, and the indices of its passing checks
ChecksAt(level) ==
    CASE level = "Bronze" -> report.bronze_checks
      [] level = "Silver" -> report.silver_checks
      [] level = "Gold" -> report.gold_checks
      [] level = "Platinum" -> report.platinum_checks

Passing(checks) == {i \in 1..Len(checks) : checks[i].status}

ScoreReturned == result.op = "get_level_score"

\* C4: get_level_score(level) returns percentage 0 for a level without checks;
\* otherwise passed counts the checks with status true, total counts the
\* checks, 0 <= passed <= total and percentage = passed / total * 100.
C4_LevelScore ==
    ScoreReturned =>
        LET checks == ChecksAt(result.arg)
            passed == result.value[1]
            total == result.value[2]
            percentage == result.value[3]
        IN  /\ total = Len(checks)
            /\ passed = Cardinality(Passing(checks))
            /\ 0 <= passed /\ passed <= total
            /\ percentage.den > 0
            /\ total = 0 => PctEQ(percentage, 0) /\ ~PctEQ(percentage, 100)
            /\ total > 0 => percentage.num * total = passed * 100 * percentage.den

\* C4 witness: the score of a level without checks was returned, and it is 0
C4_Witness ==
    /\ ScoreReturned
    /\ ChecksAt(result.arg) = <<>>
    /\ result.value[3] = Frac(0, 1)

\* C5: all 18 Bronze checks true and every other level empty or all false
\* gives the overall level "Bronze".
C5_BronzeOnly ==
    (/\ OverallReturned
     /\ Len(report.bronze_checks) = 18
     /\ Passing(report.bronze_checks) = 1..18
     /\ \A level \in {"Silver", "Gold", "Platinum"} : Passing(ChecksAt(level)) = {})
        => result.value = "Bronze"

\* C5 witness: 18 passing Bronze checks, six failing Silver checks, no Gold
\* check, four failing Platinum checks, and the level returned is "Bronze"
C5_Witness ==
    /\ OverallReturned
    /\ Passing(report.bronze_checks) = 1..18
    /\ Len(report.silver_checks) = 6 /\ Passing(report.silver_checks) = {}
    /\ report.gold_checks = <<>>
    /\ Len(report.platinum_checks) = 4 /\ Passing(report.platinum_checks) = {}
    /\ result.value = "Bronze"

----------------------------------------------------------------------------
(* Claims about main(), checked under Spec.                                *)

ProcessEnded == pc \in {"done", "crashed"}

\* C6: a run of the command line whose evaluation pass completed exits with
\* code 0 exactly when the overall level is not "Non-compliant", and with
\* code 1 otherwise, whichever of --json, --badge and --quiet were given.
C6_ExitCode ==
    (ProcessEnded /\ runs = 1) =>
        /\ exit_code \in {0, 1}
        /\ exit_code = 0 <=> get_overall_level(report) # "Non-compliant"

----------------------------------------------------------------------------
(* Claims about the checker, checked under SpecChecker and SpecContent.    *)

BronzeNames ==
    <<"README.md", "LICENSE", "SECURITY.md", "CONTRIBUTING.md", "CODE_OF_CONDUCT.md",
      "MAINTAINERS.md", "CHANGELOG.md", ".well-known/security.txt", ".well-known/ai.txt",
      ".well-known/humans.txt", "Build system", "flake.nix", "CI/CD", "TPCF Governance",
      ".gitignore", "Test structure", "Documentation index", "Project metadata">>
SilverNames ==
    <<"RSR checker tool", "RSR_COMPLIANCE.md", "Palimpsest licensing",
      "Complete .well-known", "Advanced documentation", "Nix flakes">>
GoldNames == <<"Formal verification", "Multi-language support", "Advanced security">>
PlatinumNames ==
    <<"CRDT/Offline-first", "Academic paper", "Conference materials", "iSOS integration">>

NamesOf(checks) == [i \in 1..Len(checks) |-> checks[i].name]

\* the report holds the four checklists, complete and in definition order
FullReport ==
    /\ Len(report.bronze_checks) = 18 /\ NamesOf(report.bronze_checks) = BronzeNames
    /\ Len(report.silver_checks) = 6 /\ NamesOf(report.silver_checks) = SilverNames
    /\ Len(report.gold_checks) = 3 /\ NamesOf(report.gold_checks) = GoldNames
    /\ Len(report.platinum_checks) = 4 /\ NamesOf(report.platinum_checks) = PlatinumNames
    /\ \A level \in Levels : \A i \in 1..Len(ChecksAt(level)) :
          ChecksAt(level)[i].level = level

\* the checks that stand on the content of one file, by level and position
ContentChecks ==
    {<<"Bronze", 1, "README.md">>, <<"Bronze", 2, "LICENSE">>, <<"Bronze", 3, "SECURITY.md">>,
     <<"Bronze", 8, ".well-known/security.txt">>, <<"Silver", 3, "LICENSE">>,
     <<"Silver", 6, "flake.nix">>}

\* a file that is missing or cannot be read as UTF-8 text
Unusable(p) ==
    \/ Stat(fs, p) # "found"
    \/ fs[p].kind # "file"
    \/ fs[p].mode # "ok"

RunChecksCalled == result.op = "run_checks"
RunChecksReturned == result.op = "run_checks" /\ result.value = "None"

\* C7: after run_checks() on any tree the report holds exactly 18 Bronze, 6
\* Silver, 3 Gold and 4 Platinum checks in definition order, also when
\* run_checks() ran before.
C7_AllChecksRecorded == RunChecksCalled => FullReport

\* the same for the calls of run_checks() that return, together with the
\* failing status of a check whose file is missing or unreadable: a lemma
RecordedOnReturn ==
    RunChecksReturned =>
        /\ FullReport
        /\ \A c \in ContentChecks : Unusable(c[3]) => ~ChecksAt(c[1])[c[2]].status

\* a second run_checks() returned, a Bronze check failed and later checks of
\* the same and of higher levels are recorded all the same
C7_SecondRun ==
    /\ RunChecksReturned
    /\ runs = 2
    /\ FullReport
    /\ ~report.bronze_checks[1].status
    /\ report.bronze_checks[18].status
    /\ report.platinum_checks[4].status

\* C8: on an existing readable file check_file_content returns true only if
\* every pattern matches; otherwise false with a detail that lists the
\* missing patterns in pattern order, cut to the first three.
C8_MissingPatterns ==
    (/\ result.op = "check_file_content"
     /\ fs[result.arg[1]].kind = "file"
     /\ fs[result.arg[1]].mode = "ok"
     /\ Stat(fs, result.arg[1]) = "found") =>
        LET patterns == result.arg[2]
            text == fs[result.arg[1]].text
            missing == SelectSeq(patterns, LAMBDA q : q \notin text)
            listed == IF Len(missing) = 1 THEN missing[1]
                      ELSE IF Len(missing) = 2 THEN missing[1] \o ", " \o missing[2]
                      ELSE missing[1] \o ", " \o missing[2] \o ", " \o missing[3]
        IN  /\ ~result.value.raised
            /\ result.value.status <=> (\A i \in 1..Len(patterns) : patterns[i] \in text)
            /\ ~result.value.status => result.value.details = "Missing patterns: " \o listed

\* C8 witness: README.md matches none of its four patterns and the detail
\* lists the first three
C8_Witness ==
    /\ result.op = "check_file_content"
    /\ result.arg[1] = "README.md"
    /\ fs["README.md"] = File("ok", {})
    /\ ~result.value.status
    /\ result.value.details =
          "Missing patterns: ##?\\s+Installation, ##?\\s+Usage, ##?\\s+Features"

\* C9: on any tree, whichever paths are absent, unreadable or undecodable,
\* run_checks() returns without raising, a check whose file is missing or
\* cannot be read is recorded with status false, and every level is recorded.
C9_NeverRaises ==
    RunChecksCalled =>
        /\ result.value = "None"
        /\ FullReport
        /\ \A c \in ContentChecks : Unusable(c[3]) => ~ChecksAt(c[1])[c[2]].status

\* the statuses and names of a level agree between the document and the report
LevelAgrees(doc, r, level) ==
    LET exported == doc.levels[Lower(level)]
        checks == r[Lower(level) \o "_checks"]
    IN  /\ exported.score.passed = Cardinality(Passing(checks))
        /\ exported.score.total = Len(checks)
        /\ Len(exported.checks) = Len(checks)
        /\ \A i \in 1..Len(checks) :
              /\ exported.checks[i].status = checks[i].status
              /\ exported.checks[i].name = checks[i].name

\* C10: the JSON written by export_json agrees with the report: per level
\* score.passed and score.total count the passing and all checks, the checks
\* array holds the checks in order with their status, overall_level is
\* get_overall_level(); and export_json leaves the report unchanged, also
\* when it raises.
C10_ExportAgrees ==
    [][result'.op = "export_json" =>
          /\ report' = report
          /\ result'.value = "None" =>
                /\ written'.kind = "json"
                /\ \A level \in Levels : LevelAgrees(written', report, level)
                /\ written'.overall_level = get_overall_level(report)]_vars

\* C10 witness: a full report with a failing check was exported, and the
\* document counts 17 of 18 Bronze checks as passed
C10_Witness ==
    /\ result.op = "export_json" /\ result.value = "None"
    /\ runs > 0
    /\ FullReport
    /\ written.levels["bronze"].score.passed = 17
    /\ Cardinality(Passing(report.bronze_checks)) = 17
    /\ written.overall_level = "Non-compliant"

----------------------------------------------------------------------------
(* Claims about the badge, checked under SpecBadge.                        *)

\* the level string the last generate_badge() was given by its report
BadgeLevel == IF result.arg = "" THEN get_overall_level(report) ELSE result.arg

\* C11: the URL generate_badge() returns carries the colour the fixed table
\* gives the overall level (Platinum purple, Gold yellow, Silver silver,
\* Bronze orange, Non-compliant red), and "lightgrey" for a level string the
\* table does not hold; the call returns in every case.
C11_BadgeColour ==
    result.op = "generate_badge" =>
        result.value =
            CASE BadgeLevel = "Platinum" -> "https://img.shields.io/badge/RSR-Platinum-purple"
              [] BadgeLevel = "Gold" -> "https://img.shields.io/badge/RSR-Gold-yellow"
              [] BadgeLevel = "Silver" -> "https://img.shields.io/badge/RSR-Silver-silver"
              [] BadgeLevel = "Bronze" -> "https://img.shields.io/badge/RSR-Bronze-orange"
              [] BadgeLevel = "Non-compliant" ->
                    "https://img.shields.io/badge/RSR-Non-compliant-red"
              [] BadgeLevel = "Diamond" -> "https://img.shields.io/badge/RSR-Diamond-lightgrey"
              [] BadgeLevel = "Rhodium Plus" ->
                    "https://img.shields.io/badge/RSR-Rhodium%20Plus-lightgrey"
              [] BadgeLevel = "platinum" ->
                    "https://img.shields.io/badge/RSR-platinum-lightgrey"

\* C11 witness: a report at Gold got the yellow badge
C11_Witness ==
    /\ result.op = "generate_badge"
    /\ result.arg = ""
    /\ get_overall_level(report) = "Gold"
    /\ Len(report.gold_checks) = 3
    /\ result.value = "https://img.shields.io/badge/RSR-Gold-yellow"

\* the fallback happened: an unknown level string got the lightgrey badge
C11_Fallback ==
    /\ result.op = "generate_badge"
    /\ result.arg = "Diamond"
    /\ result.value = "https://img.shields.io/badge/RSR-Diamond-lightgrey"

----------------------------------------------------------------------------
(* Claims about the fields scoring leaves unread, checked under SpecFields. *)

\* C12: scoring reads neither required nor weight: every report whose checks
\* have the same status, level by level, whatever their required and weight,
\* gets the same get_level_score for every level and the same
\* get_overall_level().
C12_FieldsUnread ==
    /\ result.op = "get_level_score" =>
          \A pattern \in FieldPatterns :
              get_level_score(WithFields(report, pattern), result.arg) = result.value
    /\ result.op = "get_overall_level" =>
          \A pattern \in FieldPatterns :
              get_overall_level(WithFields(report, pattern)) = result.value

\* C12 witness: every Gold check is optional, the failing one weightless, and
\* the level is Gold all the same
C12_Witness ==
    /\ result.op = "get_overall_level"
    /\ result.value = "Gold"
    /\ Len(report.gold_checks) = 3
    /\ ~report.gold_checks[3].status /\ report.gold_checks[3].weight = 0
    /\ \A i \in 1..3 : ~report.gold_checks[i].required \/ report.gold_checks[i].status
    /\ ~report.gold_checks[3].required
    /\ report # WithFields(report, "defaults")

----------------------------------------------------------------------------
(* Claims about the Gold "Advanced security" check, under SpecSecurity.    *)

\* a file that is there and can be read as UTF-8 text
Readable(p) == Stat(fs, p) = "found" /\ fs[p].kind = "file" /\ fs[p].mode = "ok"

HasMarker(p) == Readable(p) /\ \E i \in 1..Len(ScannerTools) : ScannerTools[i] \in fs[p].text

WorkflowFiles == {".github/workflows/ci.yml", ".github/workflows/scan.yml"}

\* (1) a CI config holds a scanner marker, (2) a dependency file is there,
\* (3) an SBOM file is there
ScannerInCi == HasMarker(".gitlab-ci.yml") \/ \E p \in WorkflowFiles : HasMarker(p)
DependencyFile == Stat(fs, "requirements.txt") = "found" \/ Stat(fs, "Cargo.lock") = "found"
SbomFile == Stat(fs, "sbom.json") = "found" \/ Stat(fs, "bom.xml") = "found"

TwoOfThree(a, b, c) == (a /\ b) \/ (a /\ c) \/ (b /\ c)

GoldReturned == result.op = "check_gold_level" /\ result.value = "None"
AdvancedSecurity == report.gold_checks[3]

\* C13: the "Advanced security" check passes exactly when at least two of
\* the three hold: a CI config contains a scanner marker, a dependency file
\* is present, an SBOM file is present.
C13_TwoOfThree ==
    result.op = "check_gold_level" =>
        /\ result.value = "None"
        /\ AdvancedSecurity.name = "Advanced security"
        /\ AdvancedSecurity.status <=> TwoOfThree(ScannerInCi, DependencyFile, SbomFile)

\* the texts of p and of q, read one after the other, hold a marker that
\* neither holds
AcrossFiles(p, q) ==
    /\ Readable(p) /\ Readable(q)
    /\ \E c \in Cuts : Ends(c.head) \in fs[p].text /\ Begins(c.tail) \in Closed(fs[q].text)

\* what the program takes for (1) when the workflow files are walked in the
\* order first, second: the first location whose whole content could be read
\* and holds a marker; a workflow file that cannot be read makes the
\* workflows directory count as holding none, and the texts of the workflow
\* files are searched as one text
ScannerByLocation(first, second) ==
    \/ HasMarker(".gitlab-ci.yml")
    \/ /\ fs[".github/workflows"] = Dir("ok")
       /\ \A p \in WorkflowFiles : fs[p].kind # "absent" => Readable(p)
       /\ \/ \E p \in WorkflowFiles : HasMarker(p)
          \/ AcrossFiles(first, second)

\* the check as the program computes it, with the detail, for one of the
\* orders in which the workflow files may be walked: a lemma
AdvancedSecurityByLocation ==
    GoldReturned =>
        \E first \in WorkflowFiles :
            LET second == CHOOSE p \in WorkflowFiles : p # first
                features == (IF ScannerByLocation(first, second)
                             THEN <<"Security scanning">> ELSE <<>>)
                            \o (IF DependencyFile THEN <<"Dependency management">> ELSE <<>>)
                            \o (IF SbomFile THEN <<"SBOM">> ELSE <<>>)
            IN  /\ AdvancedSecurity.status <=> Len(features) >= 2
                /\ AdvancedSecurity.details =
                      CASE features = <<>> -> "Not found"
                        [] Len(features) = 1 -> features[1]
                        [] Len(features) = 2 -> features[1] \o ", " \o features[2]
                        [] OTHER -> features[1] \o ", " \o features[2] \o ", " \o features[3]

\* no CI config holds a marker, ci.yml ends with the head and scan.yml begins
\* with the tail of a cut: walked in that order the two texts make a marker,
\* and with an SBOM file the check passes
C13_AcrossFiles ==
    /\ GoldReturned
    /\ ~ScannerInCi /\ ~DependencyFile /\ SbomFile
    /\ AcrossFiles(".github/workflows/ci.yml", ".github/workflows/scan.yml")
    /\ ~AcrossFiles(".github/workflows/scan.yml", ".github/workflows/ci.yml")
    /\ AdvancedSecurity.status
    /\ AdvancedSecurity.details = "Security scanning, SBOM"

\* the same tree, the files walked in the other order: the check fails
C13_OtherOrder ==
    /\ GoldReturned
    /\ ~ScannerInCi /\ ~DependencyFile /\ SbomFile
    /\ AcrossFiles(".github/workflows/ci.yml", ".github/workflows/scan.yml")
    /\ ~AcrossFiles(".github/workflows/scan.yml", ".github/workflows/ci.yml")
    /\ ~AdvancedSecurity.status
    /\ AdvancedSecurity.details = "SBOM"

\* both CI locations hold a marker, nothing else is there: the scanner is
\* counted once and the check fails
C13_CountedOnce ==
    /\ GoldReturned
    /\ HasMarker(".gitlab-ci.yml") /\ HasMarker(".github/workflows/scan.yml")
    /\ ~DependencyFile /\ ~SbomFile
    /\ ~AdvancedSecurity.status
    /\ AdvancedSecurity.details = "Security scanning"

\* .gitlab-ci.yml cannot be read, the workflows are examined all the same
C13_OtherLocation ==
    /\ GoldReturned
    /\ fs[".gitlab-ci.yml"].kind = "file" /\ fs[".gitlab-ci.yml"].mode # "ok"
    /\ HasMarker(".github/workflows/ci.yml")
    /\ SbomFile /\ ~DependencyFile
    /\ AdvancedSecurity.status

----------------------------------------------------------------------------
(* Claims about the order of the levels, checked under SpecScore.          *)

\* the report with the check at position i of a level turned to passing
Passed(r, level, i) ==
    LET key == Lower(level) \o "_checks"
    IN  [r EXCEPT ![key] = [r[key] EXCEPT ![i] = [r[key][i] EXCEPT !.status = TRUE]]]

\* the failing checks of the report, as pairs of level and position
Failing ==
    {<<level, i>> \in Levels \X (1..ReferenceSize("Bronze")) :
        i <= Len(ChecksAt(level)) /\ ~ChecksAt(level)[i].status}

\* C14: the overall level is monotone: with the number of checks of every
\* level fixed, turning one check from failing to passing never lowers
\* get_overall_level() in the order Non-compliant < Bronze < Silver < Gold <
\* Platinum.
C14_Monotone ==
    OverallReturned =>
        \A c \in Failing :
            Rank(get_overall_level(Passed(report, c[1], c[2]))) >= Rank(result.value)

\* C14 witness: at Silver with one of three Gold checks passing; a second
\* passing Gold check raises the level, a passing Platinum check keeps it
C14_Witness ==
    /\ OverallReturned
    /\ result.value = "Silver"
    /\ Len(report.gold_checks) = 3 /\ Passing(report.gold_checks) = {1}
    /\ Len(report.platinum_checks) = 4 /\ Passing(report.platinum_checks) = {}
    /\ Rank(get_overall_level(Passed(report, "Gold", 2))) > Rank(result.value)
    /\ get_overall_level(Passed(report, "Platinum", 1)) = result.value

\* C15: with 3 Gold and 4 Platinum checks and Bronze and Silver at 100%, the
\* Gold gate is passed exactly when at least 2 Gold checks pass, and the
\* Platinum gate exactly when at least 3 Platinum checks pass.
C15_ReferenceThresholds ==
    (/\ OverallReturned
     /\ PctEQ(BronzePct, 100) /\ PctEQ(SilverPct, 100)
     /\ Len(report.gold_checks) = 3 /\ Len(report.platinum_checks) = 4) =>
        /\ result.value \in {"Gold", "Platinum"} <=>
              Cardinality(Passing(report.gold_checks)) >= 2
        /\ result.value = "Platinum" <=>
              /\ Cardinality(Passing(report.gold_checks)) >= 2
              /\ Cardinality(Passing(report.platinum_checks)) >= 3
        /\ result.value \in {"Silver", "Gold", "Platinum"}

\* C15 witness: the reference checklist sizes, 2 of 3 Gold checks and 2 of 4
\* Platinum checks passing: the level is Gold
C15_Witness ==
    /\ OverallReturned
    /\ Len(report.bronze_checks) = 18 /\ Len(report.silver_checks) = 6
    /\ Len(report.gold_checks) = 3 /\ Len(report.platinum_checks) = 4
    /\ Cardinality(Passing(report.bronze_checks)) = 18
    /\ Cardinality(Passing(report.silver_checks)) = 6
    /\ Cardinality(Passing(report.gold_checks)) = 2
    /\ Cardinality(Passing(report.platinum_checks)) = 2
    /\ result.value = "Gold"

====
